---- MODULE Spec2Model ----
(***************************************************************************)
(* Disk-image assemblers of pkg/os/utils.go: the boot-image pipeline       *)
(* (CreateBootImageOnFile, PrepareGrub) and the volume pipelines           *)
(* (CopyToImgFile, copyToPart, CreateVolumes, CreatePartitionedVolumes).   *)
(* One call of one entry point is run as a sequential Go program: a call   *)
(* stack of frames, each with its program counter and its stack of         *)
(* deferred calls.  External collaborators (Acquire, mkfs, Mount, the      *)
(* partitioner, ListParts, ...) succeed or fail nondeterministically.      *)
(***************************************************************************)
EXTENDS Integers, Sequences, FiniteSets, TLC

\* ------------------------------------------------------------- bounds
MaxVolumes == 2          \* volumes handed to a multi-volume assembler

\* ------------------------------------------------- program constants
SectorSize == 512        \* pkg/os SectorSize
MegaByte == 1048576      \* MegaBytes(1).ToBytes()

MegaBytes(n) == n * MegaByte

VARIABLES
  entry,       \* the entry point that was called
  sizeOfFile,  \* boot image: the DiskSize argument, in bytes
  volumes,     \* volume assemblers: the RawVolume arguments, <<[size |-> n]>>
  stack,       \* call stack, innermost frame last
  rv,          \* value returned by the callee that returned last
  log,         \* history of the calls made to collaborators, with outcome
  held,        \* resources acquired and not yet released
  mounted,     \* devices currently mounted
  labelled,    \* on-device state: a partition table exists
  table,       \* on-device state: committed partitions, <<[offset, size]>>
  sizes,       \* local `sizes` of the multi-volume assemblers
  orderedKeys, \* local `orderedKeys` (volume order used for layout)
  start,       \* local `start` of the layout loop
  i,           \* index of the running loop of a multi-volume assembler
  requested,   \* history of the extents handed to MakePart, <<[start, end]>>
  parts,       \* local `parts` / `curParts`: the last enumeration result
  measured,    \* history of what GetDirSize answered, by folder
  peer,        \* a second CreateBootImageOnFile call on the same host
  file,        \* logical length of the image file, -1 when not created
  returned,    \* history of the calls that returned: <<[fn, ret, at]>>
  result       \* what the entry call returned; Running until then

\* input: what the call under study reads and never writes
input  == <<entry, sizeOfFile, volumes, peer>>
disk   == <<labelled, table>>
locals == <<sizes, orderedKeys, start, i, requested, parts, measured>>
vars   == <<entry, sizeOfFile, volumes, stack, rv, log, held, mounted,
            labelled, table, sizes, orderedKeys, start, i, requested, parts,
            measured, peer, file, returned, result>>

\* ------------------------------------------------------------ values
Res(kind, idx) == [kind |-> kind, idx |-> idx]
NoRes == Res("none", 0)
\* The second call: where it stands, which host-level device names it holds,
\* and whether it asked for the mapper name while the first call held it.
NoPeer == [pc |-> "absent", held |-> {}, contended |-> FALSE]
Lo    == Res("lo", 0)       \* NewLoDevice(file)
Dm    == Res("dm", 0)       \* NewDevice(0, sizeInSectors, lo, "hda")
Part(n) == Res("part", n)   \* n-th Resource returned by ListParts

Nil      == [kind |-> "nil",     call |-> "",      on |-> NoRes]
Panic    == [kind |-> "panic",   call |-> "index", on |-> NoRes]
Running  == [kind |-> "running", call |-> "",      on |-> NoRes]
Error(call, on) == [kind |-> "error", call |-> call, on |-> on]

Frame(fn, pc, dev, folder) ==
  [fn |-> fn, pc |-> pc, defers |-> <<>>, ret |-> Nil, dev |-> dev, folder |-> folder]

Deferred(call, on) == [call |-> call, on |-> on]

\* ----------------------------------------------------- control flow
Top == stack[Len(stack)]
At(fn, pc) == stack /= <<>> /\ Top.fn = fn /\ Top.pc = pc

Goto(pc) == [stack EXCEPT ![Len(stack)].pc = pc]

\* `return e`: the result is fixed, then the deferred calls run.
Return(e) == [stack EXCEPT ![Len(stack)].pc = "return", ![Len(stack)].ret = e]

\* `defer d`, then continue at pc.
Defer(d, pc) ==
  [stack EXCEPT ![Len(stack)].pc = pc,
                ![Len(stack)].defers = Append(@, d)]

\* call f; the caller resumes at pc when f has returned.
Call(f, pc) == Append(Goto(pc), f)

\* One more entry of the history: function fn called `call` on `on`.
Logged(call, on, ok, dir) ==
  Append(log, [fn |-> Top.fn, call |-> call, on |-> on, ok |-> ok, dir |-> dir])

\* Deferred calls run first-in first-out (not what Go does).
NextDeferredFirst(defers) == 1

\* The deferred call that runs next: the one deferred last.
NextDeferred(defers) == Len(defers)

\* One deferred call of the returning (or panicking) frame runs.
RunDeferred ==
  /\ stack /= <<>>
  /\ Top.pc = "return"
  /\ Top.defers /= <<>>
  /\ LET k == NextDeferred(Top.defers)
         d == Top.defers[k]
     IN /\ stack' = [stack EXCEPT ![Len(stack)].defers =
                       [j \in 1..(Len(@) - 1) |-> IF j < k THEN @[j] ELSE @[j + 1]]]
        /\ log' = Logged(d.call, d.on, TRUE, 0)
        /\ held' = IF d.call = "Release" THEN held \ {d.on} ELSE held
        /\ mounted' = IF d.call = "Umount" THEN mounted \ {d.on} ELSE mounted
  /\ UNCHANGED <<input, disk, locals, rv, file, result, returned>>

\* The frame is left: its result goes to the caller, a panic keeps unwinding.
PopFrame ==
  /\ stack /= <<>>
  /\ Top.pc = "return"
  /\ Top.defers = <<>>
  /\ IF Len(stack) = 1
       THEN /\ stack' = <<>>
            /\ result' = Top.ret
            /\ rv' = rv
       ELSE /\ result' = result
            /\ IF Top.ret.kind = "panic"
                 THEN /\ stack' = [SubSeq(stack, 1, Len(stack) - 1)
                                     EXCEPT ![Len(stack) - 1].pc = "return",
                                            ![Len(stack) - 1].ret = Panic]
                      /\ rv' = rv
                 ELSE /\ stack' = SubSeq(stack, 1, Len(stack) - 1)
                      /\ rv' = Top.ret
  /\ returned' = Append(returned, [fn |-> Top.fn, ret |-> Top.ret, at |-> Len(log)])
  /\ UNCHANGED <<input, disk, locals, log, held, mounted, file>>

\* As AcquireStep, with the `defer r.Release()` line forgotten.
AcquireStepNoDefer(fn, pc, r, next) ==
  /\ At(fn, pc)
  /\ \E ok \in BOOLEAN :
       /\ log' = Logged("Acquire", r, ok, 0)
       /\ IF ok
            THEN /\ held' = held \cup {r}
                 /\ stack' = Goto(next)
            ELSE /\ held' = held
                 /\ stack' = Return(Error("Acquire", r))
  /\ UNCHANGED <<input, disk, locals, rv, mounted, file, returned, result>>

\* As AcquireStep, with `defer r.Release()` written before the error check.
AcquireStepDeferFirst(fn, pc, r, next) ==
  /\ At(fn, pc)
  /\ \E ok \in BOOLEAN :
       /\ log' = Logged("Acquire", r, ok, 0)
       /\ IF ok
            THEN /\ held' = held \cup {r}
                 /\ stack' = Defer(Deferred("Release", r), next)
            ELSE /\ held' = held
                 /\ stack' = [Defer(Deferred("Release", r), "return")
                                EXCEPT ![Len(stack)].ret = Error("Acquire", r)]
  /\ UNCHANGED <<input, disk, locals, rv, mounted, file, returned, result>>

\* r.Acquire(); if err != nil { return err }; defer r.Release()
AcquireStep(fn, pc, r, next) ==
  /\ At(fn, pc)
  /\ \E ok \in BOOLEAN :
       /\ log' = Logged("Acquire", r, ok, 0)
       /\ IF ok
            THEN /\ held' = held \cup {r}
                 /\ stack' = Defer(Deferred("Release", r), next)
            ELSE /\ held' = held
                 /\ stack' = Return(Error("Acquire", r))
  /\ UNCHANGED <<input, disk, locals, rv, mounted, file, result, returned>>

\* As CheckedStep, with a clean-up that removes the image file on failure.
CheckedStepRemoveFile(fn, pc, call, on, next) ==
  /\ At(fn, pc)
  /\ \E ok \in BOOLEAN :
       /\ log' = Logged(call, on, ok, 0)
       /\ stack' = IF ok THEN Goto(next) ELSE Return(Error(call, on))
       /\ file' = IF ok THEN file ELSE -1
  /\ UNCHANGED <<input, disk, locals, rv, held, mounted, result, returned>>

\* err := f(...); if err != nil { return err }
CheckedStep(fn, pc, call, on, next) ==
  /\ At(fn, pc)
  /\ \E ok \in BOOLEAN :
       /\ log' = Logged(call, on, ok, 0)
       /\ stack' = IF ok THEN Goto(next) ELSE Return(Error(call, on))
  /\ UNCHANGED <<input, disk, locals, rv, held, mounted, file, result, returned>>

\* As MountStep, with the `defer Umount(mnt)` line forgotten.
MountStepNoDefer(fn, pc, dev, next) ==
  /\ At(fn, pc)
  /\ \E ok \in BOOLEAN :
       /\ log' = Logged("Mount", dev, ok, 0)
       /\ IF ok
            THEN /\ mounted' = mounted \cup {dev}
                 /\ stack' = Goto(next)
            ELSE /\ mounted' = mounted
                 /\ stack' = Return(Error("Mount", dev))
  /\ UNCHANGED <<input, disk, locals, rv, held, file, result, returned>>

\* mnt, err := Mount(dev); if err != nil { return err }; defer Umount(mnt)
MountStep(fn, pc, dev, next) ==
  /\ At(fn, pc)
  /\ \E ok \in BOOLEAN :
       /\ log' = Logged("Mount", dev, ok, 0)
       /\ IF ok
            THEN /\ mounted' = mounted \cup {dev}
                 /\ stack' = Defer(Deferred("Umount", dev), next)
            ELSE /\ mounted' = mounted
                 /\ stack' = Return(Error("Mount", dev))
  /\ UNCHANGED <<input, disk, locals, rv, held, file, result, returned>>

\* ------------------------------------------------------------ sizing
\* n &^ (SectorSize - 1), n >= 0
AlignDown(n) == n - (n % SectorSize)

\* The partitioning backend's alignment unit (extents may be snapped to it).
AlignUpTo(n, unit) == ((n + unit - 1) \div unit) * unit

RECURSIVE SumOver(_, _)
SumOver(f, keys) ==
  IF keys = {} THEN 0
  ELSE LET k == CHOOSE x \in keys : TRUE IN f[k] + SumOver(f, keys \ {k})

\* totalSize of the multi-volume assemblers
TotalSize(f) == SumOver(f, DOMAIN f)

\* The drive size with the spare sector left out: a plain rounding down.
DriveSizeNoSpare(totalSize) ==
  AlignDown(totalSize + totalSize \div 10) + MegaBytes(4)

\* sizeDrive / sizeVolume of the multi-volume assemblers
DriveSize(totalSize) ==
  AlignDown(SectorSize + totalSize + totalSize \div 10) + MegaBytes(4)

\* The single volume sized as a one-volume list of the multi-volume rule.
SingleVolumeSizeAsDrive(dirSize) ==
  DriveSize(dirSize + MegaBytes(2))

\* size of CreateSingleVolume
SingleVolumeSize(dirSize) ==
  AlignDown(SectorSize + dirSize + dirSize \div 10 + MegaBytes(2))

\* what GetDirSize may answer
DirSizes == {0, 1025}

\* `measured` after GetDirSize answered cursize for the folder
Measure(folder, cursize) ==
  [k \in DOMAIN measured \cup {folder} |->
     IF k = folder THEN cursize ELSE measured[k]]

\* a RawVolume.Size given by the caller (0: derive it from the directory)
ExplicitSizes == {0, MegaByte + 300}

\* createSparseFile(filename, size): os.Create, Seek(size-1), Write one byte
CreateSparseFileStep(fn, pc, size, next) ==
  /\ At(fn, pc)
  /\ \E outcome \in {"ok", "create fails", "write fails"} :
       /\ log' = Logged("createSparseFile", NoRes, outcome = "ok", 0)
       /\ file' = CASE outcome = "ok" -> size
                    [] outcome = "write fails" -> 0
                    [] OTHER -> file
       /\ stack' = IF outcome = "ok" THEN Goto(next)
                   ELSE Return(Error("createSparseFile", NoRes))
  /\ UNCHANGED <<input, disk, locals, rv, held, mounted, result, returned>>

\* ------------------------------------------- CreateBootImageOnFile
BootFn == "CreateBootImageOnFile"

\* sizeInSectors, err := ToSectors(sizeOfFile)
CreateBootImageOnFile_ToSectors ==
  /\ At(BootFn, "ToSectors")
  /\ IF sizeOfFile % SectorSize = 0
       THEN /\ stack' = Goto("rootLo.Acquire")
            /\ log' = log
       ELSE /\ stack' = Return(Error("ToSectors", NoRes))
            /\ log' = Logged("ToSectors", NoRes, FALSE, 0)
  /\ UNCHANGED <<input, disk, locals, rv, held, mounted, file, result, returned>>

\* As CreateBootImageOnFile_rootLoAcquire, with `rootLo.Release()` written
\* without `defer`: the loop device is detached at once.
CreateBootImageOnFile_rootLoReleasedAtOnce ==
  /\ At(BootFn, "rootLo.Acquire")
  /\ \E ok \in BOOLEAN :
       IF ok
         THEN /\ log' = Append(Logged("Acquire", Lo, TRUE, 0),
                               [fn |-> BootFn, call |-> "Release", on |-> Lo,
                                ok |-> TRUE, dir |-> 0])
              /\ stack' = Goto("rootBlkDev.Acquire")
         ELSE /\ log' = Logged("Acquire", Lo, FALSE, 0)
              /\ stack' = Return(Error("Acquire", Lo))
  /\ UNCHANGED <<input, disk, locals, rv, held, mounted, file, returned, result>>

CreateBootImageOnFile_rootLoAcquire ==
  AcquireStep(BootFn, "rootLo.Acquire", Lo, "rootBlkDev.Acquire")

CreateBootImageOnFile_rootBlkDevAcquire ==
  AcquireStep(BootFn, "rootBlkDev.Acquire", Dm, "MakeTable")

\* p.MakeTable(): the result is dropped.
CreateBootImageOnFile_MakeTable ==
  /\ At(BootFn, "MakeTable")
  /\ \E ok \in BOOLEAN :
       /\ log' = Logged("MakeTable", Dm, ok, 0)
       /\ labelled' = ok
       /\ table' = <<>>
  /\ stack' = Goto("MakePartTillEnd")
  /\ UNCHANGED <<input, locals, rv, held, mounted, file, result, returned>>

\* p.MakePartTillEnd("primary", MegaBytes(2)): the result is dropped.
CreateBootImageOnFile_MakePartTillEnd ==
  /\ At(BootFn, "MakePartTillEnd")
  /\ \E ok \in {b \in BOOLEAN : b => labelled} :
       /\ log' = Logged("MakePartTillEnd", Dm, ok, 0)
       /\ table' = IF ok
                     THEN Append(table, [offset |-> MegaBytes(2),
                                         size |-> sizeOfFile - MegaBytes(2)])
                     ELSE table
  /\ stack' = Goto("ListParts")
  /\ UNCHANGED <<input, labelled, locals, rv, held, mounted, file, result, returned>>

\* As CreateBootImageOnFile_ListParts, without the `len(parts) < 1` check:
\* parts[0] is then indexed in an empty slice.
CreateBootImageOnFile_ListPartsUnchecked ==
  /\ At(BootFn, "ListParts")
  /\ \E ok \in BOOLEAN :
       /\ log' = Logged("ListParts", Dm, ok, 0)
       /\ IF ~ok
            THEN /\ stack' = Return(Error("ListParts", Dm))
                 /\ parts' = parts
            ELSE /\ parts' = table
                 /\ IF Len(table) < 1
                      THEN stack' = Return(Panic)
                      ELSE stack' = [Goto("part.Acquire") EXCEPT
                                       ![Len(stack)].dev = Part(1)]
  /\ UNCHANGED <<input, measured, disk, sizes, orderedKeys, start, i, requested, rv, held,
                 mounted, file, returned, result>>

\* parts, err := ListParts(rootDevice); the two checks after it.
CreateBootImageOnFile_ListParts ==
  /\ At(BootFn, "ListParts")
  /\ \E ok \in BOOLEAN :
       /\ log' = Logged("ListParts", Dm, ok, 0)
       /\ IF ~ok
            THEN /\ stack' = Return(Error("ListParts", Dm))
                 /\ parts' = parts
            ELSE /\ parts' = table
                 /\ IF Len(table) < 1
                      THEN stack' = Return(Error("No parts created", NoRes))
                      ELSE stack' = [Goto("part.Acquire") EXCEPT
                                       ![Len(stack)].dev = Part(1)]
  /\ UNCHANGED <<input, measured, disk, sizes, orderedKeys, start, i, requested, rv, held,
                 mounted, file, result, returned>>

CreateBootImageOnFile_partAcquire ==
  AcquireStep(BootFn, "part.Acquire", Part(1), "mkfs")

\* The format step with its error dropped.
CreateBootImageOnFile_mkfsUnchecked ==
  /\ At(BootFn, "mkfs")
  /\ \E ok \in BOOLEAN : log' = Logged("mkfs", Part(1), ok, 0)
  /\ stack' = Goto("Mount")
  /\ UNCHANGED <<input, disk, locals, rv, held, mounted, file, result, returned>>

\* RunLogCommand("mkfs", "-I", "128", "-t", "ext2", partName)
CreateBootImageOnFile_mkfs ==
  CheckedStep(BootFn, "mkfs", "mkfs", Part(1), "Mount")

CreateBootImageOnFile_Mount ==
  MountStep(BootFn, "Mount", Part(1), "PrepareGrub")

\* PrepareGrub(mntPoint, ...): called as a statement, its error is dropped.
CreateBootImageOnFile_PrepareGrub ==
  /\ At(BootFn, "PrepareGrub")
  /\ stack' = Call(Frame("PrepareGrub", "MkdirAll", Part(1), 0), "grub-install")
  /\ UNCHANGED <<input, disk, locals, rv, log, held, mounted, file, result, returned>>

\* err = RunLogCommand("grub-install", ...); return err or nil
CreateBootImageOnFile_grubInstall ==
  /\ At(BootFn, "grub-install")
  /\ \E ok \in BOOLEAN :
       /\ log' = Logged("grub-install", Dm, ok, 0)
       /\ stack' = IF ok THEN Return(Nil) ELSE Return(Error("grub-install", Dm))
  /\ UNCHANGED <<input, disk, locals, rv, held, mounted, file, result, returned>>

CreateBootImageOnFile ==
  \/ CreateBootImageOnFile_ToSectors
  \/ CreateBootImageOnFile_rootLoAcquire
  \/ CreateBootImageOnFile_rootBlkDevAcquire
  \/ CreateBootImageOnFile_MakeTable
  \/ CreateBootImageOnFile_MakePartTillEnd
  \/ CreateBootImageOnFile_ListParts
  \/ CreateBootImageOnFile_partAcquire
  \/ CreateBootImageOnFile_mkfs
  \/ CreateBootImageOnFile_Mount
  \/ CreateBootImageOnFile_PrepareGrub
  \/ CreateBootImageOnFile_grubInstall

\* ------------------------------------------------------ PrepareGrub
\* os.MkdirAll(grubPath, 0777): the result is dropped.
PrepareGrub_MkdirAll ==
  /\ At("PrepareGrub", "MkdirAll")
  /\ \E ok \in BOOLEAN : log' = Logged("MkdirAll", Top.dev, ok, 0)
  /\ stack' = Goto("CopyFile")
  /\ UNCHANGED <<input, disk, locals, rv, held, mounted, file, result, returned>>

PrepareGrub_CopyFile ==
  CheckedStep("PrepareGrub", "CopyFile", "CopyFile", Part(1), "menu.lst")

PrepareGrub_menuLst ==
  CheckedStep("PrepareGrub", "menu.lst", "writeBootTemplate(menu.lst)", Part(1), "grub.conf")

PrepareGrub_grubConf ==
  CheckedStep("PrepareGrub", "grub.conf", "writeBootTemplate(grub.conf)", Part(1), "map")

PrepareGrub_map ==
  CheckedStep("PrepareGrub", "map", "writeDeviceMap", Part(1), "return nil")

PrepareGrub_returnNil ==
  /\ At("PrepareGrub", "return nil")
  /\ stack' = Return(Nil)
  /\ UNCHANGED <<input, disk, locals, rv, log, held, mounted, file, result, returned>>

PrepareGrub ==
  \/ PrepareGrub_MkdirAll
  \/ PrepareGrub_CopyFile
  \/ PrepareGrub_menuLst
  \/ PrepareGrub_grubConf
  \/ PrepareGrub_map
  \/ PrepareGrub_returnNil

\* --------------------------------------- formatDeviceAndCopyContents
FormatFn == "formatDeviceAndCopyContents"

formatDeviceAndCopyContents_mkfs ==
  /\ stack /= <<>>
  /\ CheckedStep(FormatFn, "mkfs", "mkfs", Top.dev, "Mount")

formatDeviceAndCopyContents_Mount ==
  /\ stack /= <<>>
  /\ MountStep(FormatFn, "Mount", Top.dev, "CopyDir")

\* CopyDir(folder, mntPoint): the result is dropped; return nil.
formatDeviceAndCopyContents_CopyDir ==
  /\ At(FormatFn, "CopyDir")
  /\ \E ok \in BOOLEAN : log' = Logged("CopyDir", Top.dev, ok, Top.folder)
  /\ stack' = Return(Nil)
  /\ UNCHANGED <<input, disk, locals, rv, held, mounted, file, result, returned>>

formatDeviceAndCopyContents ==
  \/ formatDeviceAndCopyContents_mkfs
  \/ formatDeviceAndCopyContents_Mount
  \/ formatDeviceAndCopyContents_CopyDir

\* return formatDeviceAndCopyContents(folder, dev)
CallFormat(fn, pc) ==
  /\ At(fn, pc)
  /\ stack' = Call(Frame(FormatFn, "mkfs", Top.dev, Top.folder), "return rv")
  /\ UNCHANGED <<input, disk, locals, rv, log, held, mounted, file, result, returned>>

\* the `return f(...)` of a caller whose callee has returned
ReturnRv(fn) ==
  /\ At(fn, "return rv")
  /\ stack' = Return(rv)
  /\ UNCHANGED <<input, disk, locals, rv, log, held, mounted, file, result, returned>>

\* ---------------------------------------------------- CopyToImgFile
CopyToImgFile_imgLoAcquire ==
  AcquireStep("CopyToImgFile", "imgLo.Acquire", Lo, "format")

CopyToImgFile_format == CallFormat("CopyToImgFile", "format")

CopyToImgFile_return == ReturnRv("CopyToImgFile")

CopyToImgFile ==
  \/ CopyToImgFile_imgLoAcquire
  \/ CopyToImgFile_format
  \/ CopyToImgFile_return

\* ------------------------------------------------------- copyToPart
copyToPart_partAcquire ==
  /\ stack /= <<>>
  /\ AcquireStep("copyToPart", "part.Acquire", Top.dev, "format")

copyToPart_format == CallFormat("copyToPart", "format")

copyToPart_return == ReturnRv("copyToPart")

copyToPart ==
  \/ copyToPart_partAcquire
  \/ copyToPart_format
  \/ copyToPart_return

\* ------------------------------------------ CreateBootImageWithSize
WithSizeFn == "CreateBootImageWithSize"

CreateBootImageWithSize_createSparseFile ==
  CreateSparseFileStep(WithSizeFn, "createSparseFile", sizeOfFile, "CreateBootImageOnFile")

\* return CreateBootImageOnFile(rootFile, size, progPath, commandline)
CreateBootImageWithSize_call ==
  /\ At(WithSizeFn, "CreateBootImageOnFile")
  /\ stack' = Call(Frame(BootFn, "ToSectors", NoRes, 0), "return rv")
  /\ UNCHANGED <<input, disk, locals, rv, log, held, mounted, file, result, returned>>

CreateBootImageWithSize_return == ReturnRv(WithSizeFn)

CreateBootImageWithSize ==
  \/ CreateBootImageWithSize_createSparseFile
  \/ CreateBootImageWithSize_call
  \/ CreateBootImageWithSize_return

\* ----------------------------------------------- CreateSingleVolume
SingleFn == "CreateSingleVolume"

\* size, err := GetDirSize(folder.Path); the size arithmetic; ToSectors
CreateSingleVolume_GetDirSize ==
  /\ At(SingleFn, "GetDirSize")
  /\ \/ /\ log' = Logged("GetDirSize", NoRes, FALSE, 1)
        /\ stack' = Return(Error("GetDirSize", NoRes))
        /\ UNCHANGED <<sizes, measured>>
     \/ \E cursize \in DirSizes :
          LET size == SingleVolumeSize(cursize) IN
          /\ sizes' = <<size>>
          /\ measured' = Measure(1, cursize)
          /\ IF size % SectorSize = 0
               THEN /\ log' = Logged("GetDirSize", NoRes, TRUE, 1)
                    /\ stack' = Goto("createSparseFile")
               ELSE /\ log' = Logged("ToSectors", NoRes, FALSE, 0)
                    /\ stack' = Return(Error("ToSectors", NoRes))
  /\ UNCHANGED <<input, disk, orderedKeys, start, i, requested, parts, rv, held,
                 mounted, file, result, returned>>

CreateSingleVolume_createSparseFile ==
  /\ At(SingleFn, "createSparseFile")
  /\ CreateSparseFileStep(SingleFn, "createSparseFile", sizes[1], "CopyToImgFile")

\* return CopyToImgFile(folder.Path, rootFile)
CreateSingleVolume_call ==
  /\ At(SingleFn, "CopyToImgFile")
  /\ stack' = Call(Frame("CopyToImgFile", "imgLo.Acquire", Lo, 1), "return rv")
  /\ UNCHANGED <<input, disk, locals, rv, log, held, mounted, file, result, returned>>

CreateSingleVolume_return == ReturnRv(SingleFn)

CreateSingleVolume ==
  \/ CreateSingleVolume_GetDirSize
  \/ CreateSingleVolume_createSparseFile
  \/ CreateSingleVolume_call
  \/ CreateSingleVolume_return

\* ------------------------------------ the multi-volume assemblers
VolFn  == "CreateVolumes"
PartFn == "CreatePartitionedVolumes"

MeasureNext(n) == IF n < Len(volumes) THEN "measure" ELSE "createSparseFile"
LayoutNext(k, n) == IF k <= n THEN "MakePart" ELSE "final ListParts"
PopulateNext(k, n) == IF k <= n THEN "populate" ELSE "return nil"

\* What p.MakePart("ext2", s, e) may do: fail; commit [s, e) or a larger
\* extent snapped to the backend's alignment; or report success with no
\* partition to be seen afterwards.
MakePartOutcomes(s, e) ==
  {[ok |-> FALSE, extent |-> <<>>], [ok |-> TRUE, extent |-> <<>>]}
  \cup (IF labelled
          THEN {[ok |-> TRUE, extent |-> <<[offset |-> s, size |-> e2 - s]>>] :
                  e2 \in {e, AlignUpTo(e, MegaByte)}}
          ELSE {})

\* p.MakeTable() with its result dropped; var start Bytes = firstPartOffest
VolMakeTable(fn, n) ==
  /\ At(fn, "MakeTable")
  /\ \E ok \in BOOLEAN :
       /\ log' = Logged("MakeTable", Lo, ok, 0)
       /\ labelled' = ok
       /\ table' = <<>>
  /\ start' = MegaBytes(2)
  /\ i' = 1
  /\ stack' = Goto(LayoutNext(1, n))
  /\ UNCHANGED <<input, measured, sizes, orderedKeys, requested, parts, rv, held, mounted,
                 file, returned, result, returned>>

\* end := start + curSize; err := p.MakePart("ext2", start, end)
VolMakePart(fn, curSize) ==
  /\ At(fn, "MakePart")
  /\ LET end == start + curSize IN
     /\ requested' = Append(requested, [start |-> start, end |-> end])
     /\ \E o \in MakePartOutcomes(start, end) :
          /\ log' = Logged("MakePart", Lo, o.ok, 0)
          /\ table' = table \o o.extent
          /\ stack' = IF o.ok THEN Goto("ListParts")
                      ELSE Return(Error("MakePart", Lo))
  /\ UNCHANGED <<input, measured, labelled, sizes, orderedKeys, start, i, parts, rv, held,
                 mounted, file, result, returned>>

\* As NextStart, advancing from the end that was requested.
NextStartRequested(curParts) == requested[Len(requested)].end

\* curParts[len(curParts)-1].Offset().ToBytes() + ...Size().ToBytes()
NextStart(curParts) ==
  curParts[Len(curParts)].offset + curParts[Len(curParts)].size

\* curParts, err := ListParts(imgLodName); start = end of the last one
VolListParts(fn, n) ==
  /\ At(fn, "ListParts")
  /\ \E ok \in BOOLEAN :
       /\ log' = Logged("ListParts", Lo, ok, 0)
       /\ IF ~ok
            THEN /\ stack' = Return(Error("ListParts", Lo))
                 /\ UNCHANGED <<parts, start, i>>
            ELSE /\ parts' = table
                 /\ IF Len(table) = 0
                      THEN /\ stack' = Return(Panic)
                           /\ UNCHANGED <<start, i>>
                      ELSE /\ start' = NextStart(table)
                           /\ i' = i + 1
                           /\ stack' = Goto(LayoutNext(i + 1, n))
  /\ UNCHANGED <<input, measured, disk, sizes, orderedKeys, requested, rv, held, mounted,
                 file, returned, result, returned>>

\* -------------------------------------------------- CreateVolumes
\* for _, v := range volumes { ... sizes = append(sizes, ...) }
CreateVolumes_measure ==
  /\ At(VolFn, "measure")
  /\ LET n == Len(sizes) + 1
         v == volumes[n]
     IN IF v.size = 0
          THEN \/ /\ log' = Logged("GetDirSize", NoRes, FALSE, n)
                  /\ stack' = Return(Error("GetDirSize", NoRes))
                  /\ UNCHANGED <<sizes, measured>>
               \/ \E cursize \in DirSizes :
                    /\ log' = Logged("GetDirSize", NoRes, TRUE, n)
                    /\ sizes' = Append(sizes, cursize + MegaBytes(2))
                    /\ measured' = Measure(n, cursize)
                    /\ stack' = Goto(MeasureNext(n))
          ELSE /\ log' = log
               /\ sizes' = Append(sizes, v.size)
               /\ measured' = measured
               /\ stack' = Goto(MeasureNext(n))
  /\ UNCHANGED <<input, disk, orderedKeys, start, i, requested, parts, rv, held,
                 mounted, file, result, returned>>

CreateVolumes_createSparseFile ==
  CreateSparseFileStep(VolFn, "createSparseFile", DriveSize(TotalSize(sizes)),
                       "imgLo.Acquire")

CreateVolumes_imgLoAcquire ==
  AcquireStep(VolFn, "imgLo.Acquire", Lo, "MakeTable")

CreateVolumes_MakeTable == VolMakeTable(VolFn, Len(sizes))

CreateVolumes_MakePart ==
  /\ At(VolFn, "MakePart")
  /\ VolMakePart(VolFn, sizes[i])

CreateVolumes_ListParts == VolListParts(VolFn, Len(sizes))

\* parts, err := ListParts(imgLodName) with err dropped; the count check
CreateVolumes_finalListParts ==
  /\ At(VolFn, "final ListParts")
  /\ \E ok \in BOOLEAN :
       /\ log' = Logged("ListParts", Lo, ok, 0)
       /\ parts' = IF ok THEN table ELSE <<>>
       /\ IF Len(parts') /= Len(volumes)
            THEN /\ stack' = Return(Error("Not enough parts created!", NoRes))
                 /\ i' = i
            ELSE /\ stack' = Goto(PopulateNext(1, Len(volumes)))
                 /\ i' = 1
  /\ UNCHANGED <<input, measured, disk, sizes, orderedKeys, start, requested, rv, held,
                 mounted, file, result, returned>>

\* A populate loop that pairs the partitions with the volumes back to front.
CreateVolumes_populateReversed ==
  /\ At(VolFn, "populate")
  /\ stack' = Call(Frame("copyToPart", "part.Acquire", Part(i), Len(volumes) + 1 - i),
                   PopulateNext(i + 1, Len(volumes)))
  /\ i' = i + 1
  /\ UNCHANGED <<input, measured, disk, sizes, orderedKeys, start, requested, parts, rv,
                 log, held, mounted, file, result, returned>>

\* for i, v := range volumes { copyToPart(v.Path, parts[i]) }: result dropped
CreateVolumes_populate ==
  /\ At(VolFn, "populate")
  /\ stack' = Call(Frame("copyToPart", "part.Acquire", Part(i), i),
                   PopulateNext(i + 1, Len(volumes)))
  /\ i' = i + 1
  /\ UNCHANGED <<input, measured, disk, sizes, orderedKeys, start, requested, parts, rv,
                 log, held, mounted, file, result, returned>>

CreateVolumes_returnNil ==
  /\ At(VolFn, "return nil")
  /\ stack' = Return(Nil)
  /\ UNCHANGED <<input, disk, locals, rv, log, held, mounted, file, result, returned>>

CreateVolumes ==
  \/ CreateVolumes_measure
  \/ CreateVolumes_createSparseFile
  \/ CreateVolumes_imgLoAcquire
  \/ CreateVolumes_MakeTable
  \/ CreateVolumes_MakePart
  \/ CreateVolumes_ListParts
  \/ CreateVolumes_finalListParts
  \/ CreateVolumes_populate
  \/ CreateVolumes_returnNil

\* --------------------------------------- CreatePartitionedVolumes
\* for mntPoint, localDir := range volumes { ... }: the map is walked in
\* an order the runtime chooses.
CreatePartitionedVolumes_measure ==
  /\ At(PartFn, "measure")
  /\ \E mntPoint \in DOMAIN volumes \ {orderedKeys[k] : k \in DOMAIN orderedKeys} :
       \/ /\ log' = Logged("GetDirSize", NoRes, FALSE, mntPoint)
          /\ stack' = Return(Error("GetDirSize", NoRes))
          /\ UNCHANGED <<sizes, orderedKeys, measured>>
       \/ \E cursize \in DirSizes :
            /\ log' = Logged("GetDirSize", NoRes, TRUE, mntPoint)
            /\ measured' = Measure(mntPoint, cursize)
            /\ sizes' = [k \in DOMAIN sizes \cup {mntPoint} |->
                           IF k = mntPoint THEN cursize + MegaBytes(2) ELSE sizes[k]]
            /\ orderedKeys' = Append(orderedKeys, mntPoint)
            /\ stack' = Goto(MeasureNext(Len(orderedKeys) + 1))
  /\ UNCHANGED <<input, disk, start, i, requested, parts, rv, held, mounted,
                 file, result, returned>>

CreatePartitionedVolumes_createSparseFile ==
  CreateSparseFileStep(PartFn, "createSparseFile", DriveSize(TotalSize(sizes)),
                       "imgLo.Acquire")

CreatePartitionedVolumes_imgLoAcquire ==
  AcquireStep(PartFn, "imgLo.Acquire", Lo, "MakeTable")

CreatePartitionedVolumes_MakeTable == VolMakeTable(PartFn, Len(orderedKeys))

CreatePartitionedVolumes_MakePart ==
  /\ At(PartFn, "MakePart")
  /\ VolMakePart(PartFn, sizes[orderedKeys[i]])

CreatePartitionedVolumes_ListParts == VolListParts(PartFn, Len(orderedKeys))

\* parts, err := ListParts(imgLodName) with err dropped; no check follows
CreatePartitionedVolumes_finalListParts ==
  /\ At(PartFn, "final ListParts")
  /\ \E ok \in BOOLEAN :
       /\ log' = Logged("ListParts", Lo, ok, 0)
       /\ parts' = IF ok THEN table ELSE <<>>
  /\ stack' = Goto(PopulateNext(1, Len(orderedKeys)))
  /\ i' = 1
  /\ UNCHANGED <<input, measured, disk, sizes, orderedKeys, start, requested, rv, held,
                 mounted, file, result, returned>>

\* A populate loop that walks the volumes by key instead of by orderedKeys.
CreatePartitionedVolumes_populateByKey ==
  /\ At(PartFn, "populate")
  /\ IF i > Len(parts)
       THEN /\ stack' = Return(Panic)
            /\ i' = i
       ELSE /\ stack' = Call(Frame("copyToPart", "part.Acquire", Part(i), i),
                             PopulateNext(i + 1, Len(orderedKeys)))
            /\ i' = i + 1
  /\ UNCHANGED <<input, measured, disk, sizes, orderedKeys, start, requested, parts, rv,
                 log, held, mounted, file, result, returned>>

\* for i, mntPoint := range orderedKeys { copyToPart(localDir, parts[i]) }:
\* parts[i] is indexed unchecked, the result of copyToPart is dropped.
CreatePartitionedVolumes_populate ==
  /\ At(PartFn, "populate")
  /\ IF i > Len(parts)
       THEN /\ stack' = Return(Panic)
            /\ i' = i
       ELSE /\ stack' = Call(Frame("copyToPart", "part.Acquire", Part(i), orderedKeys[i]),
                             PopulateNext(i + 1, Len(orderedKeys)))
            /\ i' = i + 1
  /\ UNCHANGED <<input, measured, disk, sizes, orderedKeys, start, requested, parts, rv,
                 log, held, mounted, file, result, returned>>

\* return orderedKeys, nil
CreatePartitionedVolumes_returnNil ==
  /\ At(PartFn, "return nil")
  /\ stack' = Return(Nil)
  /\ UNCHANGED <<input, disk, locals, rv, log, held, mounted, file, result, returned>>

CreatePartitionedVolumes ==
  \/ CreatePartitionedVolumes_measure
  \/ CreatePartitionedVolumes_createSparseFile
  \/ CreatePartitionedVolumes_imgLoAcquire
  \/ CreatePartitionedVolumes_MakeTable
  \/ CreatePartitionedVolumes_MakePart
  \/ CreatePartitionedVolumes_ListParts
  \/ CreatePartitionedVolumes_finalListParts
  \/ CreatePartitionedVolumes_populate
  \/ CreatePartitionedVolumes_returnNil

\* ---------------------------------------------------- specification
BootSizes == {MegaBytes(4), MegaBytes(4) + 1}

VolumeLists(sizeSet) ==
  UNION {[1..n -> [size : sizeSet]] : n \in 0..MaxVolumes}

\* The entry points with the arguments they are called with.
Inputs ==
  {[entry |-> e, sizeOfFile |-> s, volumes |-> <<>>] :
     e \in {BootFn, WithSizeFn}, s \in BootSizes}
  \cup {[entry |-> e, sizeOfFile |-> 0, volumes |-> <<[size |-> 0]>>] :
     e \in {"CopyToImgFile", SingleFn}}
  \cup {[entry |-> VolFn, sizeOfFile |-> 0, volumes |-> v] :
     v \in VolumeLists(ExplicitSizes)}
  \cup {[entry |-> PartFn, sizeOfFile |-> 0, volumes |-> v] :
     v \in VolumeLists({0})}

EntryFrame(e) ==
  CASE e = BootFn -> Frame(e, "ToSectors", NoRes, 0)
    [] e = WithSizeFn -> Frame(e, "createSparseFile", NoRes, 0)
    [] e = "CopyToImgFile" -> Frame(e, "imgLo.Acquire", Lo, 1)
    [] e = SingleFn -> Frame(e, "GetDirSize", NoRes, 1)
    [] e \in {VolFn, PartFn} -> Frame(e, MeasureNext(0), NoRes, 0)

\* The state in which the entry point is called with arguments `in`. The
\* image file exists beforehand for the entry points that work on one.
Start(in) ==
  /\ entry = in.entry
  /\ sizeOfFile = in.sizeOfFile
  /\ volumes = in.volumes
  /\ file = CASE in.entry = BootFn -> in.sizeOfFile
              [] in.entry = "CopyToImgFile" -> MegaBytes(4)
              [] OTHER -> -1
  /\ stack = <<EntryFrame(entry)>>
  /\ rv = Nil
  /\ log = <<>>
  /\ held = {}
  /\ mounted = {}
  /\ labelled = FALSE
  /\ table = <<>>
  /\ sizes = <<>>
  /\ orderedKeys = <<>>
  /\ start = 0
  /\ i = 0
  /\ requested = <<>>
  /\ parts = <<>>
  /\ measured = <<>>
  /\ returned = <<>>
  /\ result = Running

\* One call, no other call on the host.
Init ==
  /\ \E in \in Inputs : Start(in)
  /\ peer = NoPeer

Next ==
  \/ CreateBootImageWithSize
  \/ CreateBootImageOnFile
  \/ PrepareGrub
  \/ CreateSingleVolume
  \/ CopyToImgFile
  \/ copyToPart
  \/ formatDeviceAndCopyContents
  \/ CreateVolumes
  \/ CreatePartitionedVolumes
  \/ RunDeferred
  \/ PopFrame

Spec == Init /\ [][Next]_vars

\* ------------------------------------- specification of the sizing
\* The volume entry points up to the creation of the image file, called
\* with a wider choice of explicit sizes: with 5120, and with 2048 next to
\* a measured empty directory, total + total/10 is a whole number of sectors.
SizingSizes == {0, 1000, 2048, 5120}

SizeInputs ==
  {[entry |-> SingleFn, sizeOfFile |-> 0, volumes |-> <<[size |-> 0]>>]}
  \cup {[entry |-> VolFn, sizeOfFile |-> 0, volumes |-> v] :
     v \in VolumeLists(SizingSizes)}
  \cup {[entry |-> PartFn, sizeOfFile |-> 0, volumes |-> v] :
     v \in VolumeLists({0})}

SizeInit ==
  /\ \E in \in SizeInputs : Start(in)
  /\ peer = NoPeer

SizeNext ==
  \/ CreateSingleVolume_GetDirSize
  \/ CreateSingleVolume_createSparseFile
  \/ CreateVolumes_measure
  \/ CreateVolumes_createSparseFile
  \/ CreatePartitionedVolumes_measure
  \/ CreatePartitionedVolumes_createSparseFile
  \/ PopFrame

SizeSpec == SizeInit /\ [][SizeNext]_vars

\* ------------------------- specification of two interleaved calls
\* A second CreateBootImageOnFile call runs on the same host, on an image
\* file of its own, while the first one runs. Of the second call the model
\* keeps what it does to the host-level device names.
grubDiskName == "hda"

firstCall == <<entry, sizeOfFile, volumes, stack, rv, log, held, mounted, disk,
               locals, file, returned, result>>

\* rootLo.Acquire(); defer rootLo.Release()
Peer_rootLoAcquire ==
  /\ peer.pc = "rootLo.Acquire"
  /\ \E ok \in BOOLEAN :
       peer' = [peer EXCEPT !.pc = IF ok THEN "rootBlkDev.Acquire" ELSE "returned",
                            !.held = IF ok THEN {"loop"} ELSE {}]
  /\ UNCHANGED firstCall

\* As Peer_rootBlkDevAcquire, behind a host-wide lock on the mapper name.
Peer_rootBlkDevAcquireLocked ==
  /\ peer.pc = "rootBlkDev.Acquire"
  /\ Dm \notin held
  /\ \E ok \in BOOLEAN :
       peer' = [peer EXCEPT !.pc = IF ok THEN "MakeTable" ELSE "rootLo.Release",
                            !.held = IF ok THEN @ \cup {grubDiskName} ELSE @]
  /\ UNCHANGED firstCall

\* rootBlkDev := NewDevice(0, sizeInSectors, rootLodName, "hda");
\* rootBlkDev.Acquire(); defer rootBlkDev.Release()
Peer_rootBlkDevAcquire ==
  /\ peer.pc = "rootBlkDev.Acquire"
  /\ \E ok \in BOOLEAN :
       peer' = [peer EXCEPT !.pc = IF ok THEN "MakeTable" ELSE "rootLo.Release",
                            !.held = IF ok THEN @ \cup {grubDiskName} ELSE @,
                            !.contended = @ \/ Dm \in held]
  /\ UNCHANGED firstCall

\* from p.MakeTable() to the return, failing or not
Peer_build ==
  /\ peer.pc = "MakeTable"
  /\ peer' = [peer EXCEPT !.pc = "rootBlkDev.Release"]
  /\ UNCHANGED firstCall

\* the deferred rootBlkDev.Release()
Peer_rootBlkDevRelease ==
  /\ peer.pc = "rootBlkDev.Release"
  /\ peer' = [peer EXCEPT !.pc = "rootLo.Release", !.held = @ \ {grubDiskName}]
  /\ UNCHANGED firstCall

\* the deferred rootLo.Release()
Peer_rootLoRelease ==
  /\ peer.pc = "rootLo.Release"
  /\ peer' = [peer EXCEPT !.pc = "returned", !.held = @ \ {"loop"}]
  /\ UNCHANGED firstCall

Peer ==
  \/ Peer_rootLoAcquire
  \/ Peer_rootBlkDevAcquire
  \/ Peer_build
  \/ Peer_rootBlkDevRelease
  \/ Peer_rootLoRelease

TwoCallsInit ==
  /\ Start([entry |-> BootFn, sizeOfFile |-> MegaBytes(4), volumes |-> <<>>])
  /\ peer = [pc |-> "rootLo.Acquire", held |-> {}, contended |-> FALSE]

TwoCallsNext ==
  \/ CreateBootImageOnFile
  \/ PrepareGrub
  \/ RunDeferred
  \/ PopFrame
  \/ Peer

TwoCallsSpec == TwoCallsInit /\ [][TwoCallsNext]_vars

\* ------------------------------------------------------- properties
Done == stack = <<>>
BootEntries  == {BootFn, WithSizeFn}
MultiEntries == {VolFn, PartFn}

\* positions of the successful calls `call` on resource r
Calls(call, r) ==
  {k \in DOMAIN log : log[k].call = call /\ log[k].on = r /\ log[k].ok}

\* positions of the failed calls `call`
Failed(call) == {k \in DOMAIN log : log[k].call = call /\ ~log[k].ok}

Resources == {log[k].on : k \in DOMAIN log} \ {NoRes}

IsRelease(e) == e.call = "Release"

\* the resources in the order in which Release was invoked on them
ReleaseOrder ==
  LET rel == SelectSeq(log, IsRelease) IN [k \in DOMAIN rel |-> rel[k].on]

IsPrefix(a, b) == Len(a) <= Len(b) /\ SubSeq(b, 1, Len(a)) = a

\* C1: in every assembler and on every exit path, each resource whose
\* Acquire succeeded has had Release invoked on it exactly once by the time
\* the call that acquired it has returned; Release is never invoked twice.
C1_ReleasedExactlyOnce ==
  /\ \A r \in Resources : Cardinality(Calls("Release", r)) <= 1
  /\ returned /= <<>> =>
       LET ret == returned[Len(returned)]   \* the call that returned last
       IN \A k \in 1..ret.at :
            (log[k].call = "Acquire" /\ log[k].ok /\ log[k].fn = ret.fn)
              => \E m \in (k + 1)..ret.at :
                    log[m].call = "Release" /\ log[m].on = log[k].on
  /\ Done => held = {}

\* A boot-image build that failed at grub-install, all three resources released.
C1_Witness ==
  /\ Done
  /\ result = Error("grub-install", Dm)
  /\ \A r \in {Lo, Dm, Part(1)} :
       Cardinality(Calls("Acquire", r)) = 1 /\ Cardinality(Calls("Release", r)) = 1

\* C2: in CreateBootImageOnFile, once the loop device, the mapped root
\* device and the boot partition are acquired, every exit path releases
\* the partition first, then the mapped root device, then the loop device.
C2_ReverseOrderRelease ==
  (entry \in BootEntries /\ Calls("Acquire", Part(1)) /= {})
    => /\ IsPrefix(ReleaseOrder, <<Part(1), Dm, Lo>>)
       /\ Done => ReleaseOrder = <<Part(1), Dm, Lo>>

\* A build that failed at mkfs, mount or grub-install and has returned.
C2_Witness ==
  /\ Done
  /\ entry = BootFn
  /\ result.kind = "error"
  /\ result.call \in {"mkfs", "Mount", "grub-install"}
  /\ ReleaseOrder = <<Part(1), Dm, Lo>>

\* C3: during a boot-image build the mapping is held only while the loop
\* device is held, and the boot partition only while the mapping is held.
C3_HeldOnlyWhileParentHeld ==
  entry \in BootEntries
    => /\ Dm \in held => Lo \in held
       /\ Part(1) \in held => Dm \in held

\* A build failing before the partition was acquired, the mapping still held.
C3_Witness ==
  /\ entry = BootFn
  /\ stack /= <<>>
  /\ Top.pc = "return"
  /\ Top.ret.kind = "error"
  /\ Calls("Acquire", Part(1)) = {}
  /\ held = {Lo, Dm}

\* the resources function f holds just before log position k, in the order
\* in which their releases are due (the one acquired last comes first)
ReleasesDue(f, k) ==
  LET idx == {j \in 1..(k - 1) :
                /\ log[j].call = "Acquire" /\ log[j].ok /\ log[j].fn = f
                /\ ~\E m \in (j + 1)..(k - 1) :
                      log[m].call = "Release" /\ log[m].on = log[j].on}
  IN [t \in 1..Cardinality(idx) |->
        log[CHOOSE j \in idx : Cardinality({x \in idx : x > j}) = t - 1].on]

\* C4: when Acquire of a resource fails, Release is never invoked on that
\* resource, the function that called Acquire returns that acquisition
\* error, and until it returns it does nothing but release the resources
\* it acquired before, in reverse order of their acquisition.
C4_FailedAcquireNotReleased ==
  \A k \in Failed("Acquire") :
    LET r    == log[k].on
        f    == log[k].fn
        rets == {j \in DOMAIN returned : returned[j].at >= k}
        j0   == CHOOSE j \in rets : \A x \in rets : j <= x
        last == IF rets = {} THEN Len(log) ELSE returned[j0].at
        after == SubSeq(log, k + 1, last)
        due  == ReleasesDue(f, k)
    IN /\ Calls("Release", r) = {}
       /\ \A m \in DOMAIN after : after[m].call = "Release" /\ after[m].fn = f
       /\ IsPrefix([m \in DOMAIN after |-> after[m].on], due)
       /\ rets /= {} => /\ returned[j0].fn = f
                        /\ returned[j0].ret = Error("Acquire", r)
                        /\ Len(after) = Len(due)

\* The boot partition could not be acquired: mapping and loop device released.
C4_Witness ==
  /\ Done
  /\ entry = BootFn
  /\ result = Error("Acquire", Part(1))
  /\ ReleaseOrder = <<Dm, Lo>>

StagingSteps ==
  {"MakeTable", "MakePartTillEnd", "CopyFile", "writeBootTemplate(menu.lst)",
   "writeBootTemplate(grub.conf)", "writeDeviceMap"}

\* C5: in CreateBootImageOnFile a failure of partition-table creation, of
\* partition creation or of bootloader staging aborts the call: nothing but
\* releases follows it, and the call returns the error of that step.
C5_FailingStepAborts ==
  entry \in BootEntries
    => \A k \in DOMAIN log :
         (~log[k].ok /\ log[k].call \in StagingSteps)
           => /\ \A m \in (k + 1)..Len(log) : log[m].call \in {"Release", "Umount"}
              /\ Done => result = Error(log[k].call, log[k].on)

\* C6: in the volume assemblers no failure is swallowed: when table
\* creation, acquiring a partition, formatting, mounting or copying fails,
\* the assembler returns a non-nil error.
C6_NoFailureSwallowed ==
  (/\ entry \in MultiEntries \cup {"CopyToImgFile"}
   /\ Done
   /\ \E k \in DOMAIN log :
        ~log[k].ok /\ log[k].call \in {"MakeTable", "Acquire", "mkfs", "Mount", "CopyDir"})
    => result.kind = "error"

End(part) == part.offset + part.size

\* C7: in the layout loop the start requested for the next partition is the
\* committed end of the partition enumerated last, so the committed
\* partitions have increasing offsets and do not overlap, also when the
\* backend commits more than was requested.
C7_LayoutNonOverlapping ==
  entry \in MultiEntries
    => /\ \A k \in 1..(Len(table) - 1) :
            End(table[k]) <= table[k + 1].offset /\ table[k].offset < table[k + 1].offset
       /\ (stack /= <<>> /\ stack[1].pc = "MakePart" /\ i > 1)
            => parts /= <<>> /\ start = End(parts[Len(parts)])

\* Two partitions, the first committed larger than requested.
C7_Witness ==
  /\ entry = VolFn
  /\ Len(table) = 2
  /\ End(table[1]) > requested[1].end
  /\ table[2].offset = End(table[1])

\* the enumeration that follows the layout loop has been made
FinalListed ==
  Cardinality({k \in DOMAIN log : log[k].call = "ListParts"}) = Len(volumes) + 1

\* C8: in both multi-volume entry points, when the partition count
\* enumerated after layout differs from the volume count the call fails with
\* an error and no partition is acquired, formatted or populated.
C8_CountMismatchFails ==
  entry \in MultiEntries
    => /\ (stack /= <<>> /\ stack[1].pc \in {"populate", "return nil"})
            => Len(parts) = Len(volumes)
       /\ (\E k \in DOMAIN log : log[k].fn \in {"copyToPart", FormatFn})
            => Len(parts) = Len(volumes)
       /\ (Done /\ FinalListed /\ Len(parts) /= Len(volumes))
            => result.kind = "error"

\* C9: in the layout loop, when the enumeration after a successful MakePart
\* returns no partition, the call returns an error (it neither crashes nor
\* goes on) and the loop device is released.
C9_EmptyEnumerationFails ==
  (/\ entry \in MultiEntries
   /\ Done
   /\ table = <<>>
   /\ \E k \in DOMAIN log :
        /\ k + 1 \in DOMAIN log
        /\ log[k].call = "MakePart" /\ log[k].ok
        /\ log[k + 1].call = "ListParts" /\ log[k + 1].ok)
    => /\ result.kind = "error"
       /\ Cardinality(Calls("Release", Lo)) = 1

\* C10: in CreateBootImageOnFile, when the enumeration yields no partition
\* the call fails with an error, no partition is acquired, formatted or
\* mounted, grub-install is not run, and the mapped root device and then the
\* loop device are released.
C10_NoPartsCreated ==
  (entry \in BootEntries /\ Calls("ListParts", Dm) /= {} /\ table = <<>>)
    => /\ \A k \in DOMAIN log :
            /\ log[k].call \notin {"mkfs", "Mount", "CopyFile", "grub-install"}
            /\ ~(log[k].call = "Acquire" /\ log[k].on.kind = "part")
       /\ IsPrefix(ReleaseOrder, <<Dm, Lo>>)
       /\ \A j \in DOMAIN returned :
            returned[j].fn = BootFn
              => /\ returned[j].ret = Error("No parts created", NoRes)
                 /\ ReleaseOrder = <<Dm, Lo>>
       /\ Done => result = Error("No parts created", NoRes)

\* A build that found no partition and has returned.
C10_Witness ==
  /\ Done
  /\ entry = BootFn
  /\ Calls("ListParts", Dm) /= {}
  /\ table = <<>>
  /\ result = Error("No parts created", NoRes)
  /\ ReleaseOrder = <<Dm, Lo>>

\* ------------------------------------------------------------- C11
\* the calls made while a partition is populated
PopulateFns == {"copyToPart", FormatFn}

\* the source directory of the n-th volume in layout order
LayoutOrder(n) == IF entry = PartFn THEN orderedKeys[n] ELSE n

\* C11: in the multi-volume assemblers nothing is done to a partition
\* (acquire, format, mount, copy) before the last MakePart of the layout
\* loop was made, and the partitions are populated in layout order: the
\* i-th enumerated partition receives the directory of the i-th volume.
\* Stated of the call made last: the log grows by one call at a time.
C11_PopulateAfterLayout ==
  (entry \in MultiEntries /\ log /= <<>>) =>
    LET last == log[Len(log)] IN
    /\ last.fn \in PopulateFns
         => /\ Len(requested) = Len(volumes)
            /\ last.call = "CopyDir" => last.dir = LayoutOrder(last.on.idx)
            /\ \A m \in DOMAIN log :
                 log[m].fn \in PopulateFns => log[m].on.idx <= last.on.idx
    /\ last.call = "MakePart"
         => \A m \in DOMAIN log : log[m].fn \notin PopulateFns

\* CreateVolumes laid out and populated two volumes.
C11_Witness ==
  /\ Done
  /\ entry = VolFn
  /\ result = Nil
  /\ \E k \in Calls("CopyDir", Part(1)) : \E m \in Calls("CopyDir", Part(2)) :
       /\ k < m
       /\ log[k].dir = 1
       /\ log[m].dir = 2

\* ------------------------------------------------------------- C12
\* createSparseFile succeeded: `file` is the size it was called with
Created == Calls("createSparseFile", NoRes) /= {}

\* the size the argument of createSparseFile was derived from
DerivedFrom ==
  CASE entry = WithSizeFn -> sizeOfFile
    [] entry = SingleFn -> measured[1]
    [] entry \in MultiEntries -> TotalSize(sizes)

\* C12: every size handed to createSparseFile, by any entry point, is a
\* whole multiple of the 512-byte sector and not smaller than the size it
\* was derived from.
C12_SparseFileSectorAligned ==
  (Created /\ entry \in {WithSizeFn, SingleFn} \cup MultiEntries)
    => /\ file % SectorSize = 0
       /\ file >= DerivedFrom

\* ------------------------------------------------------------- C13
\* what volume k contributes to the total: the explicit size if there is
\* one, else the measured directory size plus 2 MB
VolumeSize(k) ==
  IF volumes[k].size /= 0 THEN volumes[k].size ELSE measured[k] + MegaBytes(2)

\* T of the multi-volume assemblers, once every volume was measured
Total == SumOver([k \in DOMAIN volumes |-> VolumeSize(k)], DOMAIN volumes)

Slack(t) == t + t \div 10

C14_SameAsMultiVolume ==
  (Created /\ entry = SingleFn)
    => file = DriveSize(measured[1] + MegaBytes(2))

\* C14, amended: the image of CreateSingleVolume is the smallest multiple
\* of 512 strictly greater than dirSize + dirSize/10 + 2 MB: the 10% margin
\* is taken on the directory size alone and no 4 MB overhead is added, so
\* the image is at least 4 MB smaller than the multi-volume rule makes it.
C14_SingleVolumeOwnRule ==
  (Created /\ entry = SingleFn)
    => LET dirSize == measured[1]
           wanted == dirSize + dirSize \div 10 + MegaBytes(2)
       IN /\ file % SectorSize = 0
          /\ wanted < file
          /\ file <= wanted + SectorSize
          /\ file + MegaBytes(4) <= DriveSize(dirSize + MegaBytes(2))

\* The image of a single volume was created for a directory that is not
\* empty.
C14_Witness ==
  /\ Created
  /\ entry = SingleFn
  /\ measured[1] > 0
  /\ file = SingleVolumeSize(measured[1])
  /\ file > MegaBytes(2)

\* ------------------------------------------------------------- C15
\* C15: once createSparseFile has created the image file, no step of any
\* assembler, failing or not, deletes or truncates it: the file keeps the
\* length it was created with.
C15_ImageFileKept == [][Created => file' = file]_vars

\* A boot image build that created its file and failed at the last step.
C15_Witness ==
  /\ Done
  /\ entry = WithSizeFn
  /\ Created
  /\ result = Error("grub-install", Dm)
  /\ file = sizeOfFile

\* ------------------------------------------------------------- C16
\* C16: nothing in the core locks the host-level device names. Both of two
\* interleaved CreateBootImageOnFile calls ask for the mapper name "hda":
\* whenever one call holds "hda" and the other stands before its Acquire of
\* the mapped root device, that Acquire can be made.
C16_NoLockOnMapperName ==
  /\ (Dm \in held /\ peer.pc = "rootBlkDev.Acquire")
       => ENABLED Peer_rootBlkDevAcquire
  /\ (grubDiskName \in peer.held /\ At(BootFn, "rootBlkDev.Acquire"))
       => ENABLED CreateBootImageOnFile_rootBlkDevAcquire
  /\ peer.held \subseteq {"loop", grubDiskName}

\* The second call asked for "hda" while the first call held it, and the
\* first call holds it still.
C16_Witness ==
  /\ peer.contended
  /\ peer.pc \in {"MakeTable", "rootLo.Release"}
  /\ Dm \in held

\* ------------------------------------------------------------- C17
\* C17: a device that was mounted is unmounted exactly once, also when a
\* later step fails: it stays mounted only while it is held, the Umount
\* comes after the Mount and before the Release of the device, and when
\* the call is over nothing is left mounted.
C17_UmountOnceBeforeRelease ==
  \A r \in mounted \cup {log[k].on : k \in {j \in DOMAIN log : log[j].call = "Mount"}} :
    LET mounts == Calls("Mount", r)
        umounts == Calls("Umount", r)
    IN /\ Cardinality(umounts) <= 1
       /\ r \in mounted <=> (mounts /= {} /\ umounts = {})
       /\ r \in mounted => r \in held
       /\ \A u \in umounts :
            /\ \E m \in mounts : m < u
            /\ \A x \in Calls("Release", r) : u < x
       /\ Done => r \notin mounted

\* A boot image build whose grub-install failed: the partition was
\* unmounted once, before it was released.
C17_Witness ==
  /\ Done
  /\ entry = BootFn
  /\ result = Error("grub-install", Dm)
  /\ Cardinality(Calls("Umount", Part(1))) = 1
  /\ \E u \in Calls("Umount", Part(1)) : \E x \in Calls("Release", Part(1)) : u < x

\* ------------------------------------------------------------- C18
\* positions of the staging calls made by PrepareGrub
Staged == {k \in DOMAIN log : log[k].fn = "PrepareGrub"}

\* C18: in CreateBootImageOnFile the steps come in the order format,
\* mount, stage, install, unmount; grub-install is run only when the boot
\* partition was formatted and is mounted and the loop device, the mapped
\* root device and the partition are all held.
C18_BootStepsInOrder ==
  entry \in BootEntries =>
    /\ At(BootFn, "grub-install")
         => /\ {Lo, Dm, Part(1)} \subseteq held
            /\ Part(1) \in mounted
    /\ \A g \in DOMAIN log :
         log[g].call = "grub-install"
           => /\ \E f \in Calls("mkfs", Part(1)) : \E m \in Calls("Mount", Part(1)) :
                   /\ f < m
                   /\ Staged /= {}
                   /\ \A k \in Staged : m < k /\ k < g
              /\ \A r \in {Lo, Dm, Part(1)} : \E a \in Calls("Acquire", r) : a < g
              /\ \A k \in 1..g : log[k].call \notin {"Umount", "Release"}
    /\ \A u \in Calls("Umount", Part(1)) :
         \A k \in DOMAIN log :
           log[k].call \in {"mkfs", "Mount", "grub-install"} \/ k \in Staged
             => k < u

\* A boot image was built: grub-install ran and the partition was
\* unmounted after it.
C18_Witness ==
  /\ Done
  /\ entry = BootFn
  /\ result = Nil
  /\ \E g \in Calls("grub-install", Dm) : \E u \in Calls("Umount", Part(1)) : g < u
  /\ Calls("writeDeviceMap", Part(1)) /= {}

\* ------------------------------------------------------------- C19
\* C19: CreatePartitionedVolumes fixes one key order while it measures,
\* whatever order the map is walked in, and uses it for the layout, for the
\* population and as the list it returns: the i-th partition is asked for
\* with the size of, and populated with, the directory of the volume named
\* by the i-th key of orderedKeys, and the keys are fixed before the layout.
C19_OneKeyOrder ==
  entry = PartFn =>
    /\ \A k \in DOMAIN orderedKeys :
         /\ orderedKeys[k] \in DOMAIN volumes
         /\ \A j \in DOMAIN orderedKeys : orderedKeys[j] = orderedKeys[k] => j = k
    /\ (Created \/ result = Nil) => Len(orderedKeys) = Len(volumes)
    /\ \A k \in DOMAIN requested :
         requested[k].end - requested[k].start
           = measured[orderedKeys[k]] + MegaBytes(2)
    /\ \A c \in DOMAIN log :
         log[c].call = "CopyDir" => log[c].dir = orderedKeys[log[c].on.idx]

\* The map was walked from the second key to the first, with directories
\* of different sizes; the first partition got the second volume.
C19_Witness ==
  /\ Done
  /\ entry = PartFn
  /\ result = Nil
  /\ orderedKeys = <<2, 1>>
  /\ measured[1] /= measured[2]
  /\ requested[1].end - requested[1].start = measured[2] + MegaBytes(2)
  /\ \E c \in Calls("CopyDir", Part(1)) : log[c].dir = 2
====
